---- MODULE Spec2Model ----
(***************************************************************************)
(* BaseEx: the generic base converter (BaseConverter), the LEB128 codec,   *)
(* the BasePhi codec and the input handler (SmartInput), as state machines *)
(* over their encode / decode / toBytes calls.                             *)
(*                                                                         *)
(* Strings are sequences of character codes ("0" is 48).  A JavaScript     *)
(* BigInt inside BaseConverter is a sequence of limbs, most significant    *)
(* first, without leading zero limbs; the limb base is unrelated to 256    *)
(* and to 10, so every conversion between bytes, digits and decimal text   *)
(* is computed by arithmetic.                                              *)
(***************************************************************************)
EXTENDS Integers, Sequences, FiniteSets, TLC

VARIABLES
    obj,        \* the class of the instance under test
    pc,         \* position of the modelled caller
    ctor,       \* the arguments the BaseConverter was constructed with
    conv,       \* the BaseConverter instance: radix, bsEnc, bsDec, decPadVal
    given,      \* the bytes the caller's array held when it was handed to encode
    arr,        \* the caller's byte array handed to BaseConverter.encode
    le,         \* the littleEndian argument of the last call
    text,       \* the digit string handed to BaseConverter.decode
    encOut,     \* what BaseConverter.encode returned
    decOut,     \* what BaseConverter.decode returned
    padOut,     \* what BaseConverter.padBytes and padChars returned for a count
    num,        \* the Number or BigInt handed to LEB128 / BasePhi / SmartInput
    callArgs,   \* the settings arguments of the codec calls
    cfg,        \* the codec instance settings (signed, ...)
    codecOut,   \* what the codec's encode returned
    codecDec    \* what the codec's decode reconstructed

vars == <<obj, pc, ctor, conv, given, arr, le, text, encOut, decOut, padOut, num, callArgs, cfg, codecOut, codecDec>>

bcVars == <<ctor, conv, given, arr, le, text, encOut, decOut, padOut>>
codecVars == <<num, callArgs, cfg, codecOut, codecDec>>

\* ------------------------------------------------------------------------
\* Bounds of the model
\* ------------------------------------------------------------------------
MaxRadix == 91
MaxLen == 2
MaxText == 3
MaxVal == 300
MaxPhi == 60
MaxPhiText == 5
MaxCount == 12

ByteVals == {0, 1, 255}

None == [tag |-> "none"]

\* ------------------------------------------------------------------------
\* Generic sequence helpers
\* ------------------------------------------------------------------------
SeqsUpTo(S, n) == UNION {[1..k -> S] : k \in 0..n}

Reverse(s) == [i \in 1..Len(s) |-> s[Len(s) + 1 - i]]

Zeros(k) == [i \in 1..k |-> 0]

Fill(k, v) == [i \in 1..k |-> v]

RECURSIVE StripLeadingZeros(_)
StripLeadingZeros(s) ==
    IF s = <<>> THEN <<>>
    ELSE IF Head(s) = 0 THEN StripLeadingZeros(Tail(s)) ELSE s

\* ------------------------------------------------------------------------
\* BigInt arithmetic (non-negative), limbs most significant first
\* ------------------------------------------------------------------------
BigBase == 2^15

BigZero == <<>>

\* n * m + a, for small m and a
RECURSIVE BigMulAddC(_, _, _)
BigMulAddC(n, m, c) ==
    IF n = <<>>
    THEN IF c = 0 THEN <<>> ELSE BigMulAddC(<<>>, m, c \div BigBase) \o <<c % BigBase>>
    ELSE LET t == n[Len(n)] * m + c
         IN  BigMulAddC(SubSeq(n, 1, Len(n) - 1), m, t \div BigBase) \o <<t % BigBase>>

BigMulAdd(n, m, a) == StripLeadingZeros(BigMulAddC(n, m, a))

\* x / y and x % y for a small divisor y: <<quotient, remainder>>
RECURSIVE BigDivModR(_, _, _, _)
BigDivModR(x, y, q, r) ==
    IF x = <<>> THEN <<StripLeadingZeros(q), r>>
    ELSE LET t == r * BigBase + Head(x)
         IN  BigDivModR(Tail(x), y, Append(q, t \div y), t % y)

divmod(x, y) == BigDivModR(x, y, <<>>, 0)

\* q >= y for a small y
BigGE(q, y) == Len(q) > 1 \/ (Len(q) = 1 /\ q[1] >= y)

\* parseInt(q, 10) of a BigInt below the limb base
BigToNumber(q) == IF q = <<>> THEN 0 ELSE q[Len(q)]

\* The value of a digit sequence in the given base, most significant digit
\* first.  The loop state st is <<number of digits consumed, value so far>>.
RECURSIVE BigHorner(_, _, _)
BigHorner(digits, base, st) ==
    IF st[1] = Len(digits) THEN st[2]
    ELSE BigHorner(digits, base,
                   <<st[1] + 1, BigMulAdd(st[2], base, digits[st[1] + 1])>>)

\* n = (n << 8n) + BigInt(byte), over the bytes of a block
BigFromBytes(bytes) == BigHorner(bytes, 256, <<0, BigZero>>)

\* n += BigInt(digit[j]) * radix ** (bs-1-j), over the digits of a block
BigFromDigits(digits, radix) == BigHorner(digits, radix, <<0, BigZero>>)

\* while (q >= base) { [q, r] = divmod(q, base); out.unshift(r) }; out.unshift(q)
RECURSIVE BigToDigits(_, _)
BigToDigits(q, base) ==
    IF BigGE(q, base)
    THEN LET qr == divmod(q, base) IN BigToDigits(qr[1], base) \o <<qr[2]>>
    ELSE <<BigToNumber(q)>>

\* BigInt.prototype.toString(): decimal digits as character codes
BigToString(n) == [i \in 1..Len(BigToDigits(n, 10)) |-> 48 + BigToDigits(n, 10)[i]]

\* radix ** k
BigPow(radix, k) == BigHorner(<<1>> \o Zeros(k), radix, <<0, BigZero>>)

\* a < b for normalised BigInts
RECURSIVE BigLessEq(_, _)
BigLessEq(a, b) ==
    IF Len(a) # Len(b) THEN Len(a) < Len(b)
    ELSE IF a = <<>> THEN TRUE
    ELSE IF Head(a) # Head(b) THEN Head(a) < Head(b)
    ELSE BigLessEq(Tail(a), Tail(b))

BigLess(a, b) == a # b /\ BigLessEq(a, b)

\* ------------------------------------------------------------------------
\* BaseConverter
\* ------------------------------------------------------------------------

\* Math.ceil(a / b) for non-negative a and positive b
CeilDiv(a, b) == (a + b - 1) \div b

\* a block-size derivation without the division by 8
KeepBy8(d) == d

\* while (bsDecPre > 8 && !(bsDecPre % 8)) bsDecPre /= 8
RECURSIVE ReduceBy8(_)
ReduceBy8(d) == IF d > 8 /\ d % 8 = 0 THEN ReduceBy8(d \div 8) ELSE d

\* a first guess of the digits per block from the logarithm:
\* Math.ceil(Math.log(256) / Math.log(radix)), the least d with radix^d >= 256
bsDecPreByLog(radix) ==
    CHOOSE d \in 1..8 : /\ BigLessEq(BigPow(256, 1), BigPow(radix, d))
                        /\ (d = 1 \/ BigLess(BigPow(radix, d - 1), BigPow(256, 1)))

bsDecPreOf(radix) == ReduceBy8(IF radix < 8 THEN radix ELSE CeilDiv(256, radix))

\* bsEnc++ while (bsEnc * 8) * Math.log(2) / Math.log(radix) < bsDecPre, i.e.
\* while 256^bsEnc < radix^bsDecPre (target); p256 is 256^b.  The double
\* evaluation and the exact comparison select the same bsEnc for every
\* radix of the model.
RECURSIVE SearchBsEnc(_, _, _)
SearchBsEnc(target, p256, b) ==
    IF BigLess(p256, target)
    THEN SearchBsEnc(target, BigMulAdd(p256, 256, 0), b + 1)
    ELSE b

\* Math.ceil((bsEnc * 8) * Math.log(2) / Math.log(radix)): the least d with
\* radix^d >= 256^bsEnc (target); pR is radix^d
RECURSIVE CeilDigits(_, _, _, _)
CeilDigits(radix, target, pR, d) ==
    IF BigLess(pR, target)
    THEN CeilDigits(radix, target, BigMulAdd(pR, radix, 0), d + 1)
    ELSE d

guessBS(radix) ==
    LET bsEnc == SearchBsEnc(BigPow(radix, bsDecPreOf(radix)), <<1>>, 0)
    IN  <<bsEnc, CeilDigits(radix, BigPow(256, bsEnc), <<1>>, 0)>>

\* new BaseConverter(radix, bsEnc, bsDec, decPadVal); NoBS stands for null
NoBS == -1

BaseConverter(radix, bsEnc, bsDec, decPadVal) ==
    IF bsEnc # NoBS /\ bsDec # NoBS
    THEN [radix |-> radix, bsEnc |-> bsEnc, bsDec |-> bsDec, decPadVal |-> decPadVal]
    ELSE [radix |-> radix, bsEnc |-> guessBS(radix)[1], bsDec |-> guessBS(radix)[2],
          decPadVal |-> decPadVal]

\* x / 0 in double arithmetic, for x >= 0: NaN for 0 / 0, Infinity otherwise
OverZero(x) == IF x = 0 THEN [kind |-> "NaN"] ELSE [kind |-> "Infinity", neg |-> FALSE]

\* a padBytes with the block sizes the other way round
padBytesSwapped(c, charCount) ==
    IF c.bsDec = 0 THEN OverZero(charCount * c.bsEnc)
    ELSE (charCount * c.bsEnc) \div c.bsDec

\* Math.floor((charCount * this.bsDec) / this.bsEnc)
padBytes(c, charCount) ==
    IF c.bsEnc = 0 THEN OverZero(charCount * c.bsDec)
    ELSE (charCount * c.bsDec) \div c.bsEnc

\* a padChars that rounds down
padCharsFloor(c, byteCount) ==
    IF c.bsDec = 0 THEN OverZero(byteCount * c.bsEnc)
    ELSE (byteCount * c.bsEnc) \div c.bsDec

\* Math.ceil((byteCount * this.bsEnc) / this.bsDec)
padChars(c, byteCount) ==
    IF c.bsDec = 0 THEN OverZero(byteCount * c.bsEnc)
    ELSE CeilDiv(byteCount * c.bsEnc, c.bsDec)

\* the digits of one block, left-padded with zeros to bsDec
EncodeBlockDigits(c, block) ==
    LET bXarray == BigToDigits(BigFromBytes(block), c.radix)
    IN  IF Len(bXarray) < c.bsDec THEN Zeros(c.bsDec - Len(bXarray)) \o bXarray ELSE bXarray

\* frame: the characters charset[charIndex] of one block
EncodeFrame(c, block, charset) ==
    LET bXarray == EncodeBlockDigits(c, block)
    IN  [k \in 1..Len(bXarray) |-> charset[bXarray[k] + 1]]

\* for (i = 0; i < l; i += bs): the frames of all blocks, concatenated
RECURSIVE EncodeBlocks(_, _, _, _)
EncodeBlocks(c, byteArray, bs, charset) ==
    IF byteArray = <<>> THEN <<>>
    ELSE EncodeFrame(c, SubSeq(byteArray, 1, bs), charset)
            \o EncodeBlocks(c, SubSeq(byteArray, bs + 1, Len(byteArray)), bs, charset)

\* the radix-10 shortcut: the first bs bytes as one integer, printed in
\* decimal; BigInt(undefined) throws when byteArray is shorter than bs
Base10Shortcut(byteArray, bs) ==
    IF Len(byteArray) < bs THEN [tag |-> "TypeError"]
    ELSE [tag |-> "ok",
          out |-> BigToString(BigFromBytes(SubSeq(byteArray, 1, bs))),
          zeroPadding |-> 0]

EncBs(c, inputBytes) == IF c.bsEnc = 0 THEN Len(inputBytes) ELSE c.bsEnc

ZeroPadding(bs, inputBytes) == IF bs # 0 THEN (bs - (Len(inputBytes) % bs)) % bs ELSE 0

EncByteArray(c, inputBytes, littleEndian) ==
    LET bs == EncBs(c, inputBytes)
        zeroArray == Zeros(ZeroPadding(bs, inputBytes))
    IN  IF littleEndian THEN zeroArray \o Reverse(inputBytes) ELSE inputBytes \o zeroArray

\* BaseConverter.encode(inputBytes, charset, littleEndian): the returned pair
encode(c, inputBytes, charset, littleEndian) ==
    LET bs == EncBs(c, inputBytes)
        byteArray == EncByteArray(c, inputBytes, littleEndian)
    IN  IF c.radix = 10 THEN Base10Shortcut(byteArray, bs)
        ELSE [tag |-> "ok",
              out |-> EncodeBlocks(c, byteArray, bs, charset),
              zeroPadding |-> ZeroPadding(bs, inputBytes)]

\* inputBytes.reverse() reverses the caller's array in place
InputAfterEncode(inputBytes, littleEndian) ==
    IF littleEndian THEN Reverse(inputBytes) ELSE inputBytes

\* charset.indexOf(c)
IndexOf(charset, ch) ==
    IF \E i \in 1..Len(charset) : charset[i] = ch
    THEN LET at == {i \in 1..Len(charset) : charset[i] = ch}
         IN  (CHOOSE i \in at : \A j \in at : i <= j) - 1
    ELSE -1

\* a character mapping that pushes index 0 for a character it does not find
RECURSIVE DigitsOfKeepUnknown(_, _)
DigitsOfKeepUnknown(str, charset) ==
    IF str = <<>> THEN <<>>
    ELSE IF IndexOf(charset, Head(str)) > -1
         THEN <<IndexOf(charset, Head(str))>> \o DigitsOfKeepUnknown(Tail(str), charset)
         ELSE <<0>> \o DigitsOfKeepUnknown(Tail(str), charset)

\* the charset indices of the characters found in the charset
RECURSIVE DigitsOf(_, _)
DigitsOf(str, charset) ==
    IF str = <<>> THEN <<>>
    ELSE IF IndexOf(charset, Head(str)) > -1
         THEN <<IndexOf(charset, Head(str))>> \o DigitsOf(Tail(str), charset)
         ELSE DigitsOf(Tail(str), charset)

DecPadChars(c, byteArray) == (c.bsDec - (Len(byteArray) % c.bsDec)) % c.bsDec

DecByteArray(c, byteArray, littleEndian) ==
    IF c.bsDec = 0 THEN byteArray
    ELSE IF littleEndian
         THEN Fill(DecPadChars(c, byteArray), c.decPadVal) \o byteArray
         ELSE byteArray \o Fill(DecPadChars(c, byteArray), c.decPadVal)

\* the bytes of one digit block, left-padded with zeros to bsEnc
DecodeBlock(c, block) ==
    LET subArray256 == BigToDigits(BigFromDigits(block, c.radix), 256)
    IN  IF Len(subArray256) < c.bsEnc
        THEN Zeros(c.bsEnc - Len(subArray256)) \o subArray256
        ELSE subArray256

RECURSIVE DecodeBlocks(_, _, _)
DecodeBlocks(c, byteArray, bs) ==
    IF byteArray = <<>> THEN <<>>
    ELSE DecodeBlock(c, SubSeq(byteArray, 1, bs))
            \o DecodeBlocks(c, SubSeq(byteArray, bs + 1, Len(byteArray)), bs)

\* while (!b256Array[0]) b256Array.shift(): on the empty array b256Array[0]
\* is undefined and shift() changes nothing, so the loop never exits
RECURSIVE StripLoop(_)
StripLoop(b256Array) ==
    IF b256Array = <<>> THEN [tag |-> "hang"]
    ELSE IF b256Array[1] = 0 THEN StripLoop(Tail(b256Array))
    ELSE [tag |-> "ok", bytes |-> Reverse(b256Array)]

\* BaseConverter.decode(inputBaseStr, charset, littleEndian)
decode(c, inputBaseStr, charset, littleEndian) ==
    IF inputBaseStr = <<>> THEN [tag |-> "ok", bytes |-> <<>>]
    ELSE
    LET digits == DigitsOf(inputBaseStr, charset)
        bs == IF c.bsDec = 0 THEN Len(digits) ELSE c.bsDec
        b256Array == DecodeBlocks(c, DecByteArray(c, digits, littleEndian), bs)
    IN  IF littleEndian
        THEN IF Len(b256Array) > 1 THEN StripLoop(b256Array)
             ELSE [tag |-> "ok", bytes |-> b256Array]
        ELSE IF c.bsDec # 0
             THEN [tag |-> "ok",
                   bytes |-> SubSeq(b256Array, 1,
                                    Len(b256Array) - padChars(c, DecPadChars(c, digits)))]
             ELSE [tag |-> "ok", bytes |-> b256Array]

\* the charset of a converter: radix characters from "0" on, so that the
\* radix-10 charset is "0123456789"
CharsetOf(radix) == [i \in 1..radix |-> 47 + i]

\* ------------------------------------------------------------------------
\* The BaseConverter state machine: construct, encode, decode back
\* ------------------------------------------------------------------------

\* the constructor calls of the model: guessBS-derived block sizes for the
\* radices up to MaxRadix and for 256, the largest one, and the explicit
\* block sizes of the LEB128 constructor
CtorArgs ==
    {<<r, NoBS, NoBS>> : r \in (2..MaxRadix) \cup {256}} \cup {<<10, 0, 0>>, <<16, 1, 2>>}

CodecIdle == num = None /\ callArgs = {} /\ cfg = None /\ codecOut = None /\ codecDec = None

InitBC ==
    /\ obj = "BaseConverter"
    /\ pc = "new"
    /\ ctor \in CtorArgs
    /\ conv = None
    /\ given \in SeqsUpTo(ByteVals, MaxLen)
    /\ arr = given
    /\ le = FALSE
    /\ text = <<>>
    /\ encOut = None
    /\ decOut = None
    /\ padOut = None
    /\ CodecIdle

\* conv = new BaseConverter(radix, bsEnc, bsDec)
New ==
    /\ obj = "BaseConverter"
    /\ pc = "new"
    /\ conv' = BaseConverter(ctor[1], ctor[2], ctor[3], 0)
    /\ pc' = "ready"
    /\ UNCHANGED <<obj, ctor, given, arr, le, text, encOut, decOut, padOut>>
    /\ UNCHANGED codecVars

\* conv.encode(arr, charset, littleEndian)
Encode(littleEndian) ==
    /\ obj = "BaseConverter"
    /\ pc = "ready"
    /\ encOut' = encode(conv, arr, CharsetOf(conv.radix), littleEndian)
    /\ arr' = InputAfterEncode(arr, littleEndian)
    /\ le' = littleEndian
    /\ text' = IF encOut'.tag = "ok" THEN encOut'.out ELSE text
    /\ pc' = IF encOut'.tag = "ok" THEN "encoded" ELSE "threw"
    /\ UNCHANGED <<obj, ctor, conv, given, decOut, padOut>>
    /\ UNCHANGED codecVars

\* conv.decode(text, charset, le) on the string encode returned
DecodeBack ==
    /\ obj = "BaseConverter"
    /\ pc = "encoded"
    /\ decOut' = decode(conv, text, CharsetOf(conv.radix), le)
    /\ pc' = IF decOut'.tag = "ok" THEN "decoded" ELSE "hung"
    /\ UNCHANGED <<obj, ctor, conv, given, arr, le, text, encOut, padOut>>
    /\ UNCHANGED codecVars

\* a caller of encode that drops the padding digits, the last
\* padBytes(zeroPadding) characters of the output, followed by
\* conv.decode(text, charset, false) on the shortened string
DecodeTrimmed ==
    /\ obj = "BaseConverter"
    /\ pc = "encoded"
    /\ ~le
    /\ conv.bsEnc # 0
    /\ text' = SubSeq(encOut.out, 1, Len(encOut.out) - padBytes(conv, encOut.zeroPadding))
    /\ decOut' = decode(conv, text', CharsetOf(conv.radix), FALSE)
    /\ pc' = IF decOut'.tag = "ok" THEN "decodedTrimmed" ELSE "hungTrimmed"
    /\ UNCHANGED <<obj, ctor, conv, given, arr, le, encOut, padOut>>
    /\ UNCHANGED codecVars

\* conv.padBytes(count) and conv.padChars(count), on a converter that was
\* handed no string yet: neither reads anything but the block sizes
Pad(count) ==
    /\ obj = "BaseConverter"
    /\ pc = "ready"
    /\ text = <<>>
    /\ padOut' = [count |-> count, bytes |-> padBytes(conv, count),
                  chars |-> padChars(conv, count)]
    /\ pc' = "padded"
    /\ UNCHANGED <<obj, ctor, conv, given, arr, le, text, encOut, decOut>>
    /\ UNCHANGED codecVars

\* conv.padChars(conv.padBytes(count)): the digits padBytes gives for count
\* padding bytes, taken back to bytes by padChars
PadBack(count) ==
    /\ obj = "BaseConverter"
    /\ pc = "ready"
    /\ text = <<>>
    /\ padOut' = LET digits == padBytes(conv, count)
                 IN  [count |-> count, bytes |-> digits,
                      chars |-> IF conv.bsEnc # 0 THEN padChars(conv, digits)
                                ELSE [kind |-> "NaN"]]
    /\ pc' = "paddedBack"
    /\ UNCHANGED <<obj, ctor, conv, given, arr, le, text, encOut, decOut>>
    /\ UNCHANGED codecVars

NextBC ==
    \/ New
    \/ (\E littleEndian \in BOOLEAN : Encode(littleEndian))
    \/ DecodeBack
    \/ DecodeTrimmed
    \/ (\E count \in 0..MaxCount : Pad(count))
    \/ (\E count \in 0..MaxCount : PadBack(count))

SpecBC == InitBC /\ [][NextBC]_vars

\* ------------------------------------------------------------------------
\* Decoding arbitrary digit strings
\* ------------------------------------------------------------------------

\* characters that are in no charset of the given radix: a blank and the
\* character after the last one
Unknowns(radix) == {32, 48 + radix}

\* digit strings over the first and the last charset character, mixed with
\* characters that are in no charset
NoisyTexts(radix) == SeqsUpTo({48, 47 + radix} \cup Unknowns(radix), MaxText)

InitDec ==
    /\ obj = "BaseConverter"
    /\ pc = "new"
    /\ ctor \in CtorArgs
    /\ conv = None
    /\ text \in NoisyTexts(ctor[1])
    /\ given = <<>>
    /\ arr = <<>>
    /\ le = FALSE
    /\ encOut = None
    /\ decOut = None
    /\ padOut = None
    /\ CodecIdle

\* conv.decode(text, charset, littleEndian)
DecodeText(littleEndian) ==
    /\ obj = "BaseConverter"
    /\ pc = "ready"
    /\ decOut' = decode(conv, text, CharsetOf(conv.radix), littleEndian)
    /\ le' = littleEndian
    /\ pc' = IF decOut'.tag = "ok" THEN "decodedText" ELSE "hungText"
    /\ UNCHANGED <<obj, ctor, conv, given, arr, text, encOut, padOut>>
    /\ UNCHANGED codecVars

NextDec == New \/ (\E littleEndian \in BOOLEAN : DecodeText(littleEndian))

SpecDec == InitDec /\ [][NextDec]_vars

\* ------------------------------------------------------------------------
\* SmartInput: Number and BigInt inputs to bytes
\* ------------------------------------------------------------------------

\* Inputs are records: [kind |-> "number", v |-> an integer],
\* [kind |-> "bigint", v |-> an integer], [kind |-> "NaN"] and
\* [kind |-> "Infinity", neg |-> BOOLEAN].
Number(v) == [kind |-> "number", v |-> v]
BigIntOf(v) == [kind |-> "bigint", v |-> v]

\* DataView.setInt16 / setUint32 / setBigUint64 ...: the byteLen low bytes of
\* the two's complement of v, in the requested byte order
ViewBytes(v, byteLen, littleEndian) ==
    LET beBytes == [i \in 1..byteLen |->
                        IF byteLen - i > 3
                        THEN (IF v < 0 THEN 255 ELSE 0)
                        ELSE (v \div (256 ^ (byteLen - i))) % 256]
    IN  IF littleEndian THEN Reverse(beBytes) ELSE beBytes

\* SmartInput.numbers(input, littleEndian) for a safe integer input; the
\* 64 bit views are beyond the integers of the model
numbers(input, littleEndian) ==
    IF input < 0
    THEN IF input < -32768
         THEN <<ViewBytes(input, 4, littleEndian), "int">>
         ELSE <<ViewBytes(input, 2, littleEndian), "int">>
    ELSE IF input > 0
         THEN IF input > 65535
              THEN <<ViewBytes(input, 4, littleEndian), "int">>
              ELSE <<ViewBytes(input, 2, littleEndian), "int">>
         ELSE <<Zeros(2), "int">>

\* SmartInput.bigInts(input, littleEndian) for an input of one 64 bit word
bigInts(input, littleEndian) == ViewBytes(input, 8, littleEndian)

\* floor(log2(m)) for m >= 1
RECURSIVE Log2(_)
Log2(m) == IF m < 2 THEN 0 ELSE 1 + Log2(m \div 2)

\* SmartInput.floatingPoints(input, littleEndian) for an integer below 2^29
\* in magnitude: sign, 11 exponent bits and the 20 leading fraction bits fill
\* the first four bytes of the IEEE-754 double, the next 8 fraction bits the
\* fifth, the other fraction bits are 0
floatingPoints(input, littleEndian) ==
    LET m == IF input < 0 THEN -input ELSE input
        e == Log2(m)
        biased == 1023 + e
        frac == IF e <= 20 THEN (m - 2 ^ e) * (2 ^ (20 - e))
                ELSE (m - 2 ^ e) \div (2 ^ (e - 20))
        low == IF e <= 20 THEN 0
               ELSE ((m - 2 ^ e) % (2 ^ (e - 20))) * (2 ^ (28 - e))
        beBytes == IF m = 0 THEN Zeros(8)
                   ELSE <<(IF input < 0 THEN 128 ELSE 0) + (biased \div 16),
                          (biased % 16) * 16 + (frac \div 65536),
                          (frac \div 256) % 256,
                          frac % 256, low, 0, 0, 0>>
    IN  IF littleEndian THEN Reverse(beBytes) ELSE beBytes

\* SmartInput.floatingPoints(Infinity): the IEEE-754 double of +/-Infinity
InfinityBytes(neg, littleEndian) ==
    LET beBytes == <<IF neg THEN 255 ELSE 127, 240, 0, 0, 0, 0, 0, 0>>
    IN  IF littleEndian THEN Reverse(beBytes) ELSE beBytes

\* SmartInput.toBytes(input, settings)
toBytes(input, settings) ==
    IF input.kind = "NaN" THEN [tag |-> "TypeError"]
    ELSE IF input.kind = "Infinity"
    THEN IF ~input.neg THEN [tag |-> "TypeError"]
         ELSE [tag |-> "ok",
               bytes |-> InfinityBytes(~settings.signed, settings.littleEndian),
               negative |-> settings.signed,
               type |-> "float"]
    ELSE IF input.kind = "number"
    THEN LET negative == settings.signed /\ input.v < 0
             magnitude == IF negative THEN -input.v ELSE input.v
         IN  IF settings.numberMode
             THEN [tag |-> "ok",
                   bytes |-> floatingPoints(magnitude, settings.littleEndian),
                   negative |-> negative,
                   type |-> "float"]
             ELSE [tag |-> "ok",
                   bytes |-> numbers(magnitude, settings.littleEndian)[1],
                   negative |-> negative,
                   type |-> numbers(magnitude, settings.littleEndian)[2]]
    ELSE LET negative == settings.signed /\ input.v < 0
             magnitude == IF negative THEN input.v * (-1) ELSE input.v
         IN  [tag |-> "ok",
              bytes |-> bigInts(magnitude, settings.littleEndian),
              negative |-> negative,
              type |-> "int"]

\* ------------------------------------------------------------------------
\* Utils
\* ------------------------------------------------------------------------

\* Utils.validateArgs(args): the instance settings, overridden by the
\* arguments of the call; args is a set of argument strings
validateArgs(settings, isMutable, args) ==
    IF \E a \in args : a \in {"signed", "unsigned"} /\ ~isMutable.signed
    THEN [tag |-> "TypeError"]
    ELSE LET signed == IF "signed" \in args THEN TRUE
                       ELSE IF "unsigned" \in args THEN FALSE
                       ELSE settings.signed
         IN  [tag |-> "ok",
              settings |-> [settings EXCEPT !.signed = signed,
                                            !.padding = settings.padding /\ ~signed]]

\* a validateArgs that stores the parameters of every call in the instance
RootAfterValidateAlways(root, parameters, initial) == parameters

\* if (initial) { for (const param in parameters) this.root[param] = parameters[param] }
RootAfterValidate(root, parameters, initial) == IF initial THEN parameters ELSE root

\* the instance settings after an encode or decode call with the arguments
\* args: validateArgs(args) is the one place of a call that may write them
InstanceAfterCall(root, isMutable, args) ==
    IF validateArgs(root, isMutable, args).tag = "ok"
    THEN RootAfterValidate(root, validateArgs(root, isMutable, args).settings, FALSE)
    ELSE root

\* Utils.extractSign(input)
extractSign(input) ==
    IF input # <<>> /\ input[1] = 45
    THEN <<Tail(input), TRUE>>
    ELSE <<input, FALSE>>

\* ------------------------------------------------------------------------
\* Numbers as decimal text
\* ------------------------------------------------------------------------
RECURSIVE DecimalDigits(_)
DecimalDigits(n) ==
    IF n >= 10 THEN DecimalDigits(n \div 10) \o <<48 + (n % 10)>> ELSE <<48 + n>>

\* n.toString() of an integer
IntToString(n) == IF n < 0 THEN <<45>> \o DecimalDigits(-n) ELSE DecimalDigits(n)

\* BigInt(str) / Big(str) of a string of decimal digits
RECURSIVE ParseDecimal(_, _)
ParseDecimal(str, n) ==
    IF str = <<>> THEN n ELSE ParseDecimal(Tail(str), n * 10 + (Head(str) - 48))

\* ------------------------------------------------------------------------
\* LEB128
\* ------------------------------------------------------------------------

\* the state of a LEB128 instance after new LEB128(...args)
LEB128Settings(signed) ==
    [littleEndian |-> TRUE, numberMode |-> FALSE, outputType |-> "buffer",
     padding |-> FALSE, signed |-> signed, upper |-> "null", version |-> "default"]

LEB128IsMutable == [littleEndian |-> FALSE, padding |-> FALSE, signed |-> TRUE, upper |-> FALSE]

\* this.converter = new BaseConverter(10, 0, 0)
LEB128Converter == BaseConverter(10, 0, 0, 0)

\* a signed loop that stops without looking at bit 6 of the group
RECURSIVE SignedGroupsNoSignBit(_)
SignedGroupsNoSignBit(n) ==
    LET byte == n % 128
        rest == n \div 128
    IN  IF rest = 0 \/ rest = -1
        THEN <<byte>>
        ELSE <<byte + 128>> \o SignedGroupsNoSignBit(rest)

\* a signed loop that emits one more group, of sign bits only, after the
\* group the code stops at
RECURSIVE SignedGroupsPadded(_)
SignedGroupsPadded(n) ==
    LET byte == n % 128
        rest == n \div 128
    IN  IF (rest = 0 /\ byte < 64) \/ (rest = -1 /\ byte >= 64)
        THEN <<byte + 128, rest % 128>>
        ELSE <<byte + 128>> \o SignedGroupsPadded(rest)

\* the signed loop of LEB128.encode
RECURSIVE SignedGroups(_)
SignedGroups(n) ==
    LET byte == n % 128
        rest == n \div 128
    IN  IF (rest = 0 /\ byte < 64) \/ (rest = -1 /\ byte >= 64)
        THEN <<byte>>
        ELSE <<byte + 128>> \o SignedGroups(rest)

\* an unsigned loop with the stop condition of the signed loop
UnsignedGroupsSignedStop(n) == SignedGroups(n)

\* the unsigned loop of LEB128.encode
RECURSIVE UnsignedGroups(_)
UnsignedGroups(n) ==
    LET byte == n % 128
        rest == n \div 128
    IN  IF rest = 0 THEN <<byte>> ELSE <<byte + 128>> \o UnsignedGroups(rest)

\* an encoder that accepts a negative value in either mode
NeverRejects(negative, signed) == FALSE

\* if (negative) { if (!signed) throw new TypeError(...) }
RejectsNegative(negative, signed) == negative /\ ~signed

\* settings.signed = true, after the signed mode of the call was read
ForceSigned(settings) == [settings EXCEPT !.signed = TRUE]

\* LEB128.encode(input, ...args)
LEB128Encode(settings0, input, args) ==
    LET va == validateArgs(settings0, LEB128IsMutable, args)
    IN  IF va.tag # "ok" THEN [tag |-> va.tag]
        ELSE
        LET signed == va.settings.signed
            settings == ForceSigned(va.settings)
            tb == toBytes(input, settings)
        IN  IF tb.tag # "ok" THEN [tag |-> tb.tag]
            ELSE
            LET base10 == encode(LEB128Converter, tb.bytes, <<>>, settings.littleEndian)
                n == ParseDecimal(base10.out, 0)
            IN  IF RejectsNegative(tb.negative, signed) THEN [tag |-> "TypeError"]
                ELSE [tag |-> "ok",
                      bytes |-> IF signed
                                THEN SignedGroups(IF tb.negative THEN -n ELSE n)
                                ELSE UnsignedGroups(n)]

\* n += BigInt(byte & 127) << shiftVal, over the input bytes
RECURSIVE GroupSum(_, _)
GroupSum(input, shiftVal) ==
    IF input = <<>> THEN 0
    ELSE (Head(input) % 128) * (2 ^ shiftVal) + GroupSum(Tail(input), shiftVal + 7)

\* LEB128.decode(input, ...args): the integer n it reconstructs, its sign and
\* the magnitude bytes handed to the output handler
LEB128Decode(settings0, input, args) ==
    LET va == validateArgs(settings0, LEB128IsMutable, args)
    IN  IF va.tag # "ok" THEN [tag |-> va.tag]
        ELSE IF Len(input) = 1 /\ input[1] = 0
        THEN [tag |-> "ok", n |-> 0, negative |-> FALSE, bytes |-> Zeros(1)]
        ELSE
        LET sum == GroupSum(input, 0)
            byte == input[Len(input)]
            shiftVal == 7 * (Len(input) - 1)
            n == IF va.settings.signed /\ byte % 128 >= 64
                 THEN (sum % (2 ^ (shiftVal + 7))) - 2 ^ (shiftVal + 7)
                 ELSE sum
            es == extractSign(IntToString(n))
            output == decode(LEB128Converter, es[1], CharsetOf(10), TRUE)
        IN  IF output.tag # "ok" THEN [tag |-> output.tag]
            ELSE [tag |-> "ok", n |-> n, negative |-> es[2], bytes |-> output.bytes]

\* ------------------------------------------------------------------------
\* BasePhi
\* ------------------------------------------------------------------------

\* A Big.js value met by BasePhi is a sum and difference of 1 and #Phi only:
\* <<a, b>> stands for a + b * #Phi.  plus and minus are exact in Big.js.
\* #Phi is the golden ratio to 120 decimals, and a non-zero a + b * phi with
\* coefficients of the model's size is larger than 1e-5 in magnitude, so the
\* comparisons below, computed for the golden ratio itself, agree with Big.js.
BigOf(k) == <<k, 0>>

Phi == <<0, 1>>

plus(x, y) == <<x[1] + y[1], x[2] + y[2]>>

minus(x, y) == <<x[1] - y[1], x[2] - y[2]>>

SignOfInt(k) == IF k > 0 THEN 1 ELSE IF k < 0 THEN -1 ELSE 0

\* the sign of a + b * phi = ((2a + b) + b * sqrt(5)) / 2
SignOf(x) ==
    LET p == 2 * x[1] + x[2]
        q == x[2]
    IN  IF p >= 0 /\ q >= 0 THEN (IF p = 0 /\ q = 0 THEN 0 ELSE 1)
        ELSE IF p <= 0 /\ q <= 0 THEN -1
        ELSE IF p > 0 THEN SignOfInt(p * p - 5 * q * q)
        ELSE SignOfInt(5 * q * q - p * p)

lt(x, y) == SignOf(minus(x, y)) < 0

gt(x, y) == SignOf(minus(x, y)) > 0

lte(x, y) == SignOf(minus(x, y)) <= 0

eq(x, y) == SignOf(minus(x, y)) = 0

\* BasePhi.#approxNull(n): n rounded to 50 decimals is zero
approxNull(n) == eq(n, BigOf(0))

\* a nextPhiExp that does not add
nextPhiExpFlat(last, cur) == <<cur, cur>>

\* BasePhi.#nextPhiExp(last, cur)
nextPhiExp(last, cur) == <<cur, plus(last, cur)>>

\* a prevPhiExp that subtracts the other way round
prevPhiExpSwapped(cur, prev) == <<minus(cur, prev), cur>>

\* BasePhi.#prevPhiExp(cur, prev)
prevPhiExp(cur, prev) == <<minus(prev, cur), cur>>

\* the state of a BasePhi instance after new BasePhi()
BasePhiSettings ==
    [littleEndian |-> FALSE, numberMode |-> FALSE, outputType |-> "buffer",
     padding |-> FALSE, signed |-> TRUE, upper |-> "null", version |-> "default"]

BasePhiIsMutable == [littleEndian |-> FALSE, padding |-> FALSE, signed |-> FALSE, upper |-> FALSE]

\* this.charsets.default = ["0", "1"]
BasePhiCharset == <<48, 49>>

\* this.b10 = new BaseConverter(10, 0, 0)
b10 == BaseConverter(10, 0, 0, 0)

\* an exponent search that stops one power of phi early
RECURSIVE FindExponentShort(_, _)
FindExponentShort(n, st) ==
    LET lc == nextPhiExp(st[1], st[2])
    IN  IF lt(lc[2], n) THEN FindExponentShort(n, <<lc[1], lc[2], st[3] + 1>>) ELSE st

\* while (cur.lt(n)) { [last, cur] = nextPhiExp(last, cur); exp++ }
\* st is <<last, cur, exp>>
RECURSIVE FindExponent(_, _)
FindExponent(n, st) ==
    IF lt(st[2], n)
    THEN FindExponent(n, <<nextPhiExp(st[1], st[2])[1], nextPhiExp(st[1], st[2])[2], st[3] + 1>>)
    ELSE st

\* while (cur.gt(n)) { [cur, prev] = prevPhiExp(cur, prev);
\*                     if (cur.lte(0)) warn and return; exp-- }
\* st is <<cur, prev, exp>>; the result carries warned = TRUE on the warning
RECURSIVE StepDown(_, _)
StepDown(n, st) ==
    IF gt(st[1], n)
    THEN LET cp == prevPhiExp(st[1], st[2])
         IN  IF lte(cp[1], BigOf(0))
             THEN [warned |-> TRUE, cur |-> cp[1], prev |-> cp[2], exp |-> st[3]]
             ELSE StepDown(n, <<cp[1], cp[2], st[3] - 1>>)
    ELSE [warned |-> FALSE, cur |-> st[1], prev |-> st[2], exp |-> st[3]]

\* reduceN(cur, prev, exp): acc holds n, exponents, decExponents and whether
\* the approximation warning was given; trail keeps, for every exponent in
\* the order of recording, the exponent and the n it was recorded against
RECURSIVE reduceN(_, _, _, _)
reduceN(acc, cur, prev, exp) ==
    IF approxNull(acc.n) THEN acc
    ELSE LET sd == StepDown(acc.n, <<cur, prev, exp>>)
         IN  IF sd.warned THEN [acc EXCEPT !.warned = TRUE]
             ELSE reduceN([n |-> minus(acc.n, sd.cur),
                           exponents |-> IF sd.exp > -1 THEN <<sd.exp>> \o acc.exponents
                                         ELSE acc.exponents,
                           decExponents |-> IF sd.exp > -1 THEN acc.decExponents
                                            ELSE Append(acc.decExponents, sd.exp),
                           warned |-> FALSE,
                           trail |-> Append(acc.trail, <<sd.exp, acc.n>>)],
                          sd.cur, sd.prev, sd.exp)

\* a rendering of the integer part that writes no zero between two ones
RECURSIVE RenderIntNoGap(_, _, _)
RenderIntNoGap(exponents, charset, st) ==
    IF exponents = <<>> THEN st[1]
    ELSE RenderIntNoGap(Tail(exponents), charset,
                        <<<<charset[2]>> \o st[1], Head(exponents) + 1>>)

\* the digits of the integer part: exponents holds the recorded exponents in
\* increasing order; st is <<output, exp>>
RECURSIVE RenderInt(_, _, _)
RenderInt(exponents, charset, st) ==
    IF exponents = <<>> THEN st[1]
    ELSE LET nExp == Head(exponents)
             gap == IF st[2] < nExp THEN nExp - st[2] ELSE 0
         IN  RenderInt(Tail(exponents), charset,
                       <<<<charset[2]>> \o Fill(gap, charset[1]) \o st[1], st[2] + gap + 1>>)

\* a rendering of the fractional part that writes no zero between two ones
RECURSIVE RenderDecNoGap(_, _, _)
RenderDecNoGap(decExponents, charset, st) ==
    IF decExponents = <<>> THEN st[1]
    ELSE RenderDecNoGap(Tail(decExponents), charset,
                        <<st[1] \o <<charset[2]>>, Head(decExponents) - 1>>)

\* the digits of the fractional part: decExponents in decreasing order
RECURSIVE RenderDec(_, _, _)
RenderDec(decExponents, charset, st) ==
    IF decExponents = <<>> THEN st[1]
    ELSE LET nExp == Head(decExponents)
             gap == IF st[2] > nExp THEN st[2] - nExp ELSE 0
         IN  RenderDec(Tail(decExponents), charset,
                       <<st[1] \o Fill(gap, charset[1]) \o <<charset[2]>>, st[2] - gap - 1>>)

Dot == 46

Minus == 45

WithSign(output, negative) == IF negative THEN <<Minus>> \o output ELSE output

\* a base case for 0 alone
IsBaseCaseZeroOnly(n) == eq(n, BigOf(0))

\* n.eq(0) || n.eq(1)
IsBaseCase(n) == eq(n, BigOf(0)) \/ eq(n, BigOf(1))

\* BasePhi.encode(input) outside decimal mode
BasePhiEncode(settings0, input, args) ==
    LET va == validateArgs(settings0, BasePhiIsMutable, args)
    IN  IF va.tag # "ok" THEN [tag |-> va.tag]
        ELSE
        LET tb == toBytes(input, va.settings)
        IN  IF tb.tag # "ok" THEN [tag |-> tb.tag]
            ELSE
            LET base10 == encode(b10, tb.bytes, <<>>, va.settings.littleEndian)
                n == BigOf(ParseDecimal(base10.out, 0))
            IN  IF IsBaseCase(n)
                THEN [tag |-> "ok",
                      out |-> WithSign(<<BasePhiCharset[n[1] + 1]>>, tb.negative),
                      searched |-> FALSE, warned |-> FALSE,
                      exponents |-> <<>>, decExponents |-> <<>>, rest |-> n,
                      trail |-> <<>>]
                ELSE
                LET fe == FindExponent(n, <<BigOf(1), Phi, 0>>)
                    red == reduceN([n |-> n, exponents |-> <<>>, decExponents |-> <<>>,
                                    warned |-> FALSE, trail |-> <<>>],
                                   fe[1], fe[2], fe[3])
                    intPart == RenderInt(red.exponents, BasePhiCharset, <<<<>>, 0>>)
                    withDot == IF intPart = <<>> THEN <<48, Dot>> ELSE intPart \o <<Dot>>
                    output == RenderDec(red.decExponents, BasePhiCharset, <<withDot, -1>>)
                IN  [tag |-> "ok",
                     out |-> WithSign(output, tb.negative),
                     searched |-> TRUE, warned |-> red.warned,
                     exponents |-> red.exponents, decExponents |-> red.decExponents,
                     rest |-> red.n, trail |-> red.trail]

\* input.split("."): the parts before the first and before the second point
RECURSIVE UpToDot(_)
UpToDot(str) ==
    IF str = <<>> \/ Head(str) = Dot THEN <<>> ELSE <<Head(str)>> \o UpToDot(Tail(str))

AfterDot(str) ==
    IF Len(UpToDot(str)) = Len(str) THEN <<>>
    ELSE UpToDot(SubSeq(str, Len(UpToDot(str)) + 2, Len(str)))

\* the forEach over the reversed integer part; st is <<n, last, cur>>
RECURSIVE SumInt(_, _, _)
SumInt(chars, charset, st) ==
    IF chars = <<>> THEN [tag |-> "ok", n |-> st[1]]
    ELSE LET charIndex == IndexOf(charset, Head(chars))
         IN  IF charIndex # 1 /\ charIndex # 0 THEN [tag |-> "CharsetError"]
             ELSE SumInt(Tail(chars), charset,
                         <<IF charIndex = 1 THEN plus(st[1], st[3]) ELSE st[1],
                           nextPhiExp(st[2], st[3])[1], nextPhiExp(st[2], st[3])[2]>>)

\* the forEach over the fractional part; st is <<n, cur, prev>>
RECURSIVE SumDec(_, _, _)
SumDec(chars, charset, st) ==
    IF chars = <<>> THEN [tag |-> "ok", n |-> st[1]]
    ELSE LET charIndex == IndexOf(charset, Head(chars))
         IN  IF charIndex # 1 /\ charIndex # 0 THEN [tag |-> "CharsetError"]
             ELSE SumDec(Tail(chars), charset,
                         <<IF charIndex = 1 THEN plus(st[1], st[2]) ELSE st[1],
                           prevPhiExp(st[2], st[3])[1], prevPhiExp(st[2], st[3])[2]>>)

\* n.round(): the integer nearest to a + b * phi
round(x) ==
    IF x[2] = 0 THEN x[1]
    ELSE LET m == IF x[2] < 0 THEN -x[2] ELSE x[2]
         IN  x[1] + CHOOSE k \in (-2 * m - 1)..(2 * m + 1) :
                        /\ SignOf(<<1 - 2 * k, 2 * x[2]>>) >= 0
                        /\ SignOf(<<-1 - 2 * k, 2 * x[2]>>) < 0

\* Utils.normalizeInput(input)
normalizeInput(input) == SelectSeq(input, LAMBDA ch : ch # 32)

\* BasePhi.decode(input) outside decimal mode: the rounded sum n and the sign
BasePhiDecode(settings0, input0, args) ==
    LET va == validateArgs(settings0, BasePhiIsMutable, args)
    IN  IF va.tag # "ok" THEN [tag |-> va.tag]
        ELSE
        LET es == extractSign(normalizeInput(input0))
            posExpStr == UpToDot(es[1])
            decExpStr == AfterDot(es[1])
            intSum == SumInt(Reverse(posExpStr), BasePhiCharset,
                             <<BigOf(0), minus(Phi, BigOf(1)), BigOf(1)>>)
        IN  IF intSum.tag # "ok" THEN [tag |-> intSum.tag]
            ELSE
            LET decSum == IF decExpStr # <<>>
                          THEN SumDec(decExpStr, BasePhiCharset,
                                      <<intSum.n, minus(Phi, BigOf(1)), BigOf(1)>>)
                          ELSE intSum
            IN  IF decSum.tag # "ok" THEN [tag |-> decSum.tag]
                ELSE [tag |-> "ok", n |-> round(decSum.n), sum |-> decSum.n,
                      negative |-> es[2]]

\* ------------------------------------------------------------------------
\* The LEB128 state machine: construct, encode, decode back
\* ------------------------------------------------------------------------

\* integers around the limits of the 16 and 32 bit views and of the 7 bit
\* groups
EdgeVals ==
    LET edges == {8191, 8192, 16383, 16384, 32767, 32768, 32769, 65535, 65536,
                  1048575, 1048576, 2097151, 2097152}
    IN  edges \cup {-e : e \in edges}

IntInputs == ((-MaxVal)..MaxVal) \cup EdgeVals

CodecInputs ==
    {Number(v) : v \in IntInputs} \cup {BigIntOf(v) : v \in IntInputs}
        \cup {[kind |-> "NaN"], [kind |-> "Infinity", neg |-> FALSE]}

\* the settings arguments a call may pass
CallArgs == {{}, {"signed"}, {"unsigned"}}

BCIdle ==
    /\ padOut = None
    /\ given = <<>>
    /\ arr = <<>>
    /\ le = FALSE
    /\ text = <<>>
    /\ encOut = None
    /\ decOut = None

InitLEB ==
    /\ obj = "LEB128"
    /\ pc = "ready"
    /\ ctor = <<10, 0, 0>>
    /\ conv = LEB128Converter
    /\ BCIdle
    /\ num \in CodecInputs
    /\ callArgs = {}
    /\ cfg \in {LEB128Settings(signed) : signed \in BOOLEAN}
    /\ codecOut = None
    /\ codecDec = None

\* leb128.encode(num, ...a)
LEBEncode(a) ==
    /\ obj = "LEB128"
    /\ pc = "ready"
    /\ callArgs' = a
    /\ codecOut' = LEB128Encode(cfg, num, a)
    /\ cfg' = InstanceAfterCall(cfg, LEB128IsMutable, a)
    /\ pc' = IF codecOut'.tag = "ok" THEN "encoded" ELSE "threw"
    /\ UNCHANGED <<obj, num, codecDec>>
    /\ UNCHANGED bcVars

\* leb128.decode(bytes, ...callArgs) on the bytes encode returned, same arguments
LEBDecode ==
    /\ obj = "LEB128"
    /\ pc = "encoded"
    /\ codecDec' = LEB128Decode(cfg, codecOut.bytes, callArgs)
    /\ cfg' = InstanceAfterCall(cfg, LEB128IsMutable, callArgs)
    /\ pc' = IF codecDec'.tag = "ok" THEN "decoded" ELSE "threw"
    /\ UNCHANGED <<obj, num, callArgs, codecOut>>
    /\ UNCHANGED bcVars

NextLEB == (\E a \in CallArgs : LEBEncode(a)) \/ LEBDecode

SpecLEB == InitLEB /\ [][NextLEB]_vars

\* the signed mode in force for the call
SignedMode == IF "signed" \in callArgs THEN TRUE
              ELSE IF "unsigned" \in callArgs THEN FALSE
              ELSE cfg.signed

IsInt(input) == input.kind \in {"number", "bigint"}

\* ------------------------------------------------------------------------
\* The BasePhi state machine: construct, encode, decode back
\* ------------------------------------------------------------------------
PhiInputs ==
    {Number(v) : v \in (-MaxPhi)..MaxPhi} \cup {BigIntOf(v) : v \in (-MaxPhi)..MaxPhi}

InitPhi ==
    /\ obj = "BasePhi"
    /\ pc = "ready"
    /\ ctor = <<10, 0, 0>>
    /\ conv = b10
    /\ BCIdle
    /\ num \in PhiInputs
    /\ callArgs = {}
    /\ cfg = BasePhiSettings
    /\ codecOut = None
    /\ codecDec = None

\* basePhi.encode(num)
PhiEncode ==
    /\ obj = "BasePhi"
    /\ pc = "ready"
    /\ codecOut' = BasePhiEncode(cfg, num, callArgs)
    /\ cfg' = InstanceAfterCall(cfg, BasePhiIsMutable, callArgs)
    /\ pc' = IF codecOut'.tag = "ok" THEN "encoded" ELSE "threw"
    /\ UNCHANGED <<obj, num, callArgs, codecDec>>
    /\ UNCHANGED bcVars

\* basePhi.decode(str) on the string encode returned
PhiDecode ==
    /\ obj = "BasePhi"
    /\ pc = "encoded"
    /\ codecDec' = BasePhiDecode(cfg, codecOut.out, callArgs)
    /\ cfg' = InstanceAfterCall(cfg, BasePhiIsMutable, callArgs)
    /\ pc' = IF codecDec'.tag = "ok" THEN "decoded" ELSE "threw"
    /\ UNCHANGED <<obj, num, callArgs, codecOut>>
    /\ UNCHANGED bcVars

NextPhi == PhiEncode \/ PhiDecode

SpecPhi == InitPhi /\ [][NextPhi]_vars

\* ------------------------------------------------------------------------
\* BasePhi decoding arbitrary strings
\* ------------------------------------------------------------------------

\* strings over the two charset symbols, the sign, the radix point and "2",
\* a character that is not in the charset
PhiTexts == SeqsUpTo({48, 49, 50, Minus, Dot}, MaxPhiText)

InitPhiDec ==
    /\ obj = "BasePhi"
    /\ pc = "text"
    /\ ctor = <<10, 0, 0>>
    /\ conv = b10
    /\ text \in PhiTexts
    /\ given = <<>>
    /\ arr = <<>>
    /\ le = FALSE
    /\ encOut = None
    /\ decOut = None
    /\ padOut = None
    /\ num = None
    /\ callArgs = {}
    /\ cfg = BasePhiSettings
    /\ codecOut = None
    /\ codecDec = None

\* basePhi.decode(text)
PhiDecodeText ==
    /\ obj = "BasePhi"
    /\ pc = "text"
    /\ codecDec' = BasePhiDecode(cfg, text, callArgs)
    /\ cfg' = InstanceAfterCall(cfg, BasePhiIsMutable, callArgs)
    /\ pc' = IF codecDec'.tag = "ok" THEN "decodedText" ELSE "threwText"
    /\ UNCHANGED <<obj, num, callArgs, codecOut>>
    /\ UNCHANGED bcVars

\* strings of digits 0 and 1 with at most one radix point and no two adjacent
\* ones, the two sides of the radix point counting as adjacent
IsCanonical(str) ==
    /\ \A i \in 1..Len(str) : str[i] \in {48, 49, Dot}
    /\ Cardinality({i \in 1..Len(str) : str[i] = Dot}) <= 1
    /\ LET digits == SelectSeq(str, LAMBDA ch : ch # Dot)
       IN  \A i \in 1..(Len(digits) - 1) : ~(digits[i] = 49 /\ digits[i + 1] = 49)

CanonTexts == {t \in PhiTexts : IsCanonical(t)}

\* basePhi.decode(other), a second call, made for each pair of such strings
PhiDecodeOther(other) ==
    /\ obj = "BasePhi"
    /\ pc = "decodedText"
    /\ IsCanonical(text)
    /\ codecOut' = [text |-> other, dec |-> BasePhiDecode(cfg, other, callArgs)]
    /\ cfg' = InstanceAfterCall(cfg, BasePhiIsMutable, callArgs)
    /\ pc' = "decodedBoth"
    /\ UNCHANGED <<obj, num, callArgs, codecDec>>
    /\ UNCHANGED bcVars

NextPhiDec == PhiDecodeText \/ (\E other \in CanonTexts : PhiDecodeOther(other))

SpecPhiDec == InitPhiDec /\ [][NextPhiDec]_vars

\* ------------------------------------------------------------------------
\* SmartInput.toBytes called directly
\* ------------------------------------------------------------------------

\* the settings toBytes reads
InputSettings ==
    [signed : BOOLEAN, numberMode : BOOLEAN, littleEndian : BOOLEAN]

SmartInputs == CodecInputs \cup {[kind |-> "Infinity", neg |-> TRUE]}

InitIn ==
    /\ obj = "SmartInput"
    /\ pc = "input"
    /\ ctor = <<10, 0, 0>>
    /\ conv = None
    /\ BCIdle
    /\ num \in SmartInputs
    /\ callArgs = {}
    /\ cfg \in InputSettings
    /\ codecOut = None
    /\ codecDec = None

\* SmartInput.toBytes(num, cfg)
ToBytes ==
    /\ obj = "SmartInput"
    /\ pc = "input"
    /\ codecOut' = toBytes(num, cfg)
    /\ pc' = IF codecOut'.tag = "ok" THEN "bytes" ELSE "threw"
    /\ UNCHANGED <<obj, num, callArgs, cfg, codecDec>>
    /\ UNCHANGED bcVars

NextIn == ToBytes

SpecIn == InitIn /\ [][NextIn]_vars

\* every machine of the module
Init == InitBC \/ InitDec \/ InitLEB \/ InitPhi \/ InitPhiDec \/ InitIn

Next == NextBC \/ NextDec \/ NextLEB \/ NextPhi \/ NextPhiDec \/ NextIn

Spec == Init /\ [][Next]_vars

\* ------------------------------------------------------------------------
\* Properties of BaseConverter.encode followed by BaseConverter.decode
\* ------------------------------------------------------------------------

\* C1: whenever decode returns for the string encode returned, with the same
\* charset and endianness, it returns exactly the bytes that were given to
\* encode (same length, same bytes, same order), for every radix and both
\* endianness settings.
C1_RoundTrip == pc = "decoded" => decOut.bytes = given

\* base 16, little endian, bytes [1, 0]: encode returns "0001" and decode
\* strips the zero byte, so one byte comes back
C1_LittleEndianStripped ==
    /\ pc = "decoded" /\ le
    /\ ctor = <<16, NoBS, NoBS>>
    /\ given = <<1, 0>>
    /\ text = <<48, 48, 48, 49>>
    /\ decOut.bytes = <<1>>

\* ------------------------------------------------------------------------
\* Properties of LEB128
\* ------------------------------------------------------------------------

\* every byte but the last has the continuation bit set, the last has not
ContinuationTerminated(bytes) ==
    /\ bytes # <<>>
    /\ \A i \in 1..(Len(bytes) - 1) : bytes[i] >= 128
    /\ bytes[Len(bytes)] < 128

\* the sum of (byte & 0x7F) << (7 * i) over the bytes
RECURSIVE PayloadSum(_)
PayloadSum(bytes) ==
    IF bytes = <<>> THEN 0
    ELSE (Head(bytes) % 128) + 128 * PayloadSum(Tail(bytes))

\* the length of the shortest continuation-terminated sequence whose payload
\* sum is v: k groups hold the values below 128^k
ShortestLength(v) == CHOOSE k \in 1..5 : v < 128 ^ k /\ (k = 1 \/ v >= 128 ^ (k - 1))

\* C2: for a non-negative integer v, LEB128.encode in unsigned mode returns a
\* continuation-terminated byte sequence of the shortest possible length whose
\* 7 bit groups sum to v (which determines every byte); 0, 127, 128 and 300
\* encode to [0x00], [0x7F], [0x80, 0x01] and [0xAC, 0x02].
C2_UnsignedMinimal ==
    (pc \in {"encoded", "decoded"} /\ obj = "LEB128" /\ IsInt(num) /\ num.v >= 0 /\ ~SignedMode)
        => /\ ContinuationTerminated(codecOut.bytes)
           /\ PayloadSum(codecOut.bytes) = num.v
           /\ Len(codecOut.bytes) = ShortestLength(num.v)
           /\ (num.v = 0 => codecOut.bytes = <<0>>)
           /\ (num.v = 127 => codecOut.bytes = <<127>>)
           /\ (num.v = 128 => codecOut.bytes = <<128, 1>>)
           /\ (num.v = 300 => codecOut.bytes = <<172, 2>>)

C2_Encoded300 ==
    /\ pc = "encoded" /\ obj = "LEB128" /\ ~SignedMode
    /\ num = Number(300)
    /\ codecOut.bytes = <<172, 2>>

\* C3: for every integer v, negative ones included, the integer LEB128.decode
\* reconstructs in signed mode from what LEB128.encode returned for v in
\* signed mode is v.
C3_SignedRoundTrip ==
    (pc = "decoded" /\ obj = "LEB128" /\ IsInt(num) /\ SignedMode)
        => codecDec.n = num.v

C3_DecodedMinus129 ==
    /\ pc = "decoded" /\ obj = "LEB128" /\ SignedMode
    /\ num = Number(-129)
    /\ codecOut.bytes = <<255, 126>>
    /\ codecDec.n = -129

\* C4: LEB128.encode of a negative number or negative BigInt in unsigned mode
\* throws a TypeError and returns no bytes.
C4_NegativeUnsignedRejected ==
    (pc # "ready" /\ obj = "LEB128" /\ IsInt(num) /\ num.v < 0 /\ ~SignedMode)
        => pc = "threw" /\ codecOut = [tag |-> "TypeError"]

C4_NegativeBigIntThrew ==
    /\ pc = "threw" /\ obj = "LEB128" /\ ~SignedMode
    /\ num = BigIntOf(-129)
    /\ codecOut = [tag |-> "TypeError"]

\* ------------------------------------------------------------------------
\* Properties of BasePhi
\* ------------------------------------------------------------------------

\* C5: for every integer n from 0 to MaxPhi, the value BasePhi.decode
\* reconstructs from the string BasePhi.encode returned for n (the sum of the
\* powers of phi at the positions holding "1", rounded) is n, with no sign.
C5_PhiRoundTrip ==
    (pc = "decoded" /\ obj = "BasePhi" /\ num.v >= 0)
        => codecDec.n = num.v /\ ~codecDec.negative

\* 12 is 100000.101001 in base phi
C5_Decoded12 ==
    /\ pc = "decoded" /\ obj = "BasePhi"
    /\ num = Number(12)
    /\ codecOut.out = <<49, 48, 48, 48, 48, 48, Dot, 49, 48, 49, 48, 48, 49>>
    /\ codecDec.n = 12

\* C6: BasePhi.encode returns the one character "0" for 0 and "1" for 1, with
\* "-" in front only for a negative input, without a radix point and without
\* entering the exponent search.
C6_BaseCases ==
    (pc # "ready" /\ obj = "BasePhi" /\ num.v \in {-1, 0, 1})
        => /\ codecOut.tag = "ok"
           /\ ~codecOut.searched
           /\ codecOut.out = (IF num.v < 0 THEN <<Minus>> ELSE <<>>)
                                \o <<IF num.v = 0 THEN 48 ELSE 49>>

C6_EncodedOne ==
    /\ pc = "encoded" /\ obj = "BasePhi"
    /\ num = Number(1)
    /\ codecOut.out = <<49>>
    /\ ~codecOut.searched

\* ------------------------------------------------------------------------
\* Properties of BaseConverter.decode and of the block sizes
\* ------------------------------------------------------------------------

\* s without the characters that are not in the charset
Known(str, charset) ==
    SelectSeq(str, LAMBDA ch : \E i \in DOMAIN charset : charset[i] = ch)

\* C7: BaseConverter.decode of a digit string is what it is for the string
\* without its characters that are not in the charset: such characters count
\* neither as digits nor towards the block length and the padding, and the
\* call fails on none of them.
C7_UnknownIgnored ==
    (pc \in {"decodedText", "hungText"} /\ obj = "BaseConverter")
        => decOut = decode(conv, Known(text, CharsetOf(conv.radix)), CharsetOf(conv.radix), le)

\* base 16: the last digit (15), a blank and the digit 0 decode as the two
\* digits without the blank, to the one byte 240
C7_DecodedAcrossBlank ==
    /\ pc = "decodedText" /\ ~le
    /\ ctor = <<16, NoBS, NoBS>>
    /\ text = <<63, 32, 48>>
    /\ decOut.bytes = <<240>>

\* C8: guessBS gives a converter of radix 16 one byte and two digits per
\* block, and a converter of radix 2 one byte and eight digits per block.
C8_GuessBS ==
    (pc # "new" /\ obj = "BaseConverter")
        => /\ (ctor = <<16, NoBS, NoBS>> => conv.bsEnc = 1 /\ conv.bsDec = 2)
           /\ (ctor = <<2, NoBS, NoBS>> => conv.bsEnc = 1 /\ conv.bsDec = 8)

C8_Built16 ==
    /\ pc = "ready" /\ obj = "BaseConverter"
    /\ ctor = <<16, NoBS, NoBS>>
    /\ conv = [radix |-> 16, bsEnc |-> 1, bsDec |-> 2, decPadVal |-> 0]

\* C9: a BaseConverter built for radix 10 without explicit block sizes gets
\* bsEnc = 0, the whole input being one block.
C9_Radix10Unblocked ==
    (pc # "new" /\ obj = "BaseConverter" /\ ctor = <<10, NoBS, NoBS>>)
        => conv.bsEnc = 0

\* new BaseConverter(10) has blocks of 11 bytes and 27 digits
C9_Built10 ==
    /\ pc = "ready" /\ obj = "BaseConverter"
    /\ ctor = <<10, NoBS, NoBS>>
    /\ conv = [radix |-> 10, bsEnc |-> 11, bsDec |-> 27, decPadVal |-> 0]

\* C10: for the unblocked radix-10 converter and every byte sequence of
\* length 0 to MaxLen, encode (which takes the radix-10 shortcut) returns the
\* string the block loop produces for the same input, block size and charset.
C10_ShortcutIsBlockLoop ==
    (pc = "encoded" /\ obj = "BaseConverter" /\ conv.radix = 10 /\ conv.bsEnc = 0)
        => encOut.out = EncodeBlocks(conv, EncByteArray(conv, given, le),
                                     EncBs(conv, given), CharsetOf(10))

\* no bytes: the shortcut returns "0", the block loop the empty string
C10_EmptyInput ==
    /\ pc = "encoded" /\ obj = "BaseConverter"
    /\ ctor = <<10, 0, 0>>
    /\ given = <<>>
    /\ encOut.out = <<48>>
    /\ EncodeBlocks(conv, EncByteArray(conv, given, le), EncBs(conv, given), CharsetOf(10)) = <<>>

\* ------------------------------------------------------------------------
\* Totality and frame of BaseConverter.encode
\* ------------------------------------------------------------------------

\* C11: BaseConverter.encode returns a (string, zeroPadding) pair and raises
\* no error, for every byte sequence, the empty one included, every radix
\* and both endianness settings.
C11_EncodeTotal ==
    (obj = "BaseConverter" /\ pc \in {"encoded", "threw"})
        => pc = "encoded" /\ encOut.tag = "ok"

\* new BaseConverter(10) and no bytes: the shortcut reads byteArray[0] of an
\* empty array
C11_EmptyInputThrew ==
    /\ obj = "BaseConverter" /\ pc = "threw"
    /\ ctor = <<10, NoBS, NoBS>>
    /\ given = <<>>
    /\ encOut = [tag |-> "TypeError"]

\* C13: after BaseConverter.encode the caller's array holds the bytes it held
\* before the call, in the same order, for both endianness settings.
C13_InputUnchanged ==
    (obj = "BaseConverter" /\ pc \in {"encoded", "threw"}) => arr = given

\* little endian: the caller's [0, 1] is [1, 0] after the call
C13_CallerArrayReversed ==
    /\ obj = "BaseConverter" /\ pc = "encoded" /\ le
    /\ given = <<0, 1>>
    /\ arr = <<1, 0>>

\* ------------------------------------------------------------------------
\* BasePhi.decode and characters outside its charset
\* ------------------------------------------------------------------------

\* the string after an optional leading "-"
Unsigned(str) == IF str # <<>> /\ str[1] = Minus THEN Tail(str) ELSE str

\* some character of the string, the leading sign and the radix points
\* aside, is neither "0" nor "1"
HasForeignChar(str) ==
    \E i \in 1..Len(Unsigned(str)) : Unsigned(str)[i] \notin {48, 49, Dot}

\* C12: BasePhi.decode throws CharsetError and returns no value for every
\* string that holds, after an optional leading "-" and apart from the radix
\* point, a character other than "0" and "1", wherever it stands.
C12_ForeignCharRejected ==
    (obj = "BasePhi" /\ pc \in {"decodedText", "threwText"} /\ HasForeignChar(text))
        => pc = "threwText" /\ codecDec = [tag |-> "CharsetError"]

\* "1.0.2" decodes as "1.0": what follows a second point is never read
C12_SecondPointAccepted ==
    /\ obj = "BasePhi" /\ pc = "decodedText"
    /\ text = <<49, Dot, 48, Dot, 50>>
    /\ codecDec.tag = "ok"
    /\ codecDec.n = 1

\* ------------------------------------------------------------------------
\* The configuration of an instance
\* ------------------------------------------------------------------------

\* C14: once the constructor has returned, no encode or decode call on a
\* LEB128, BasePhi or BaseConverter instance, whatever arguments it is given,
\* changes the configuration of the instance: the settings (version,
\* littleEndian, signed, numberMode, outputType, padding, upper) and the
\* converter (radix, block sizes) are after the call what they were before.
C14_ConfigUnchanged == [][pc # "new" => (cfg' = cfg /\ conv' = conv)]_vars

\* an unsigned LEB128 instance is still unsigned after an encode and a decode
\* call that were both given "signed"
C14_OverrideLeftConfig ==
    /\ obj = "LEB128" /\ pc = "decoded"
    /\ callArgs = {"signed"}
    /\ num = Number(-129)
    /\ codecDec.n = -129
    /\ cfg = LEB128Settings(FALSE)
    /\ conv = LEB128Converter

\* ------------------------------------------------------------------------
\* Termination and output of BaseConverter.decode
\* ------------------------------------------------------------------------

\* C15: BaseConverter.decode terminates for every digit string, every radix
\* and both endianness settings, little-endian strings whose blocks decode
\* to zero bytes only included.
C15_DecodeTerminates ==
    (obj = "BaseConverter" /\ pc \in {"decodedText", "hungText"})
        => pc = "decodedText" /\ decOut.tag = "ok"

\* base 16, little endian, "000": two zero bytes, which the stripping loop
\* shifts away, and then it runs on the empty array
C15_ZeroBlocksHang ==
    /\ obj = "BaseConverter" /\ pc = "hungText" /\ le
    /\ ctor = <<16, NoBS, NoBS>>
    /\ text = <<48, 48, 48>>
    /\ decOut = [tag |-> "hang"]

\* the digits of the decoded string and the bytes of its blocks, before any
\* byte is removed
DecodedDigits == DigitsOf(text, CharsetOf(conv.radix))

DecodedBlocks ==
    DecodeBlocks(conv, DecByteArray(conv, DecodedDigits, le),
                 IF conv.bsDec = 0 THEN Len(DecodedDigits) ELSE conv.bsDec)

\* a byte sequence without its leading zero bytes, one byte kept
StrippedKeepingOne(bytes) ==
    IF StripLeadingZeros(bytes) = <<>> THEN <<0>> ELSE StripLeadingZeros(bytes)

\* C16: in little-endian mode BaseConverter.decode returns, for a string
\* with at least one digit, the bytes of its blocks without the leading zero
\* bytes but with at least one byte, reversed; a string whose digits are all
\* zero decodes to exactly one zero byte.
C16_LittleEndianStrip ==
    (obj = "BaseConverter" /\ pc \in {"decodedText", "hungText"} /\ le /\ DecodedDigits # <<>>)
        => /\ decOut.tag = "ok"
           /\ decOut.bytes = Reverse(StrippedKeepingOne(DecodedBlocks))
           /\ ((\A i \in 1..Len(DecodedDigits) : DecodedDigits[i] = 0) => decOut.bytes = <<0>>)

\* base 256, little endian, two zero digits: no byte is returned at all
C16_ZeroValueNoByte ==
    /\ obj = "BaseConverter" /\ pc = "hungText" /\ le
    /\ ctor = <<256, NoBS, NoBS>>
    /\ text = <<48, 48>>
    /\ DecodedBlocks = <<0, 0>>
    /\ decOut.tag # "ok"

\* C17: every block of bsDec digits contributes exactly bsEnc bytes to the
\* output of BaseConverter.decode, whatever the digits, so that before any
\* byte is removed the output has bsEnc bytes for each block of digits.
C17_BlockBytes ==
    (obj = "BaseConverter" /\ pc \in {"decodedText", "hungText"} /\ conv.bsDec # 0)
        => LET padded == DecByteArray(conv, DecodedDigits, le)
               blocks == Len(padded) \div conv.bsDec
           IN  /\ \A k \in 1..blocks :
                     Len(DecodeBlock(conv, SubSeq(padded, (k - 1) * conv.bsDec + 1,
                                                  k * conv.bsDec))) = conv.bsEnc
               /\ Len(DecodedBlocks) = conv.bsEnc * blocks

\* base 85 (4 bytes, 5 digits): the last digit and four padding digits are
\* 84 * 85^4, more than 2^32, and the block has five bytes
C17_FiveBytesFromOneBlock ==
    /\ obj = "BaseConverter" /\ pc = "decodedText" /\ ~le
    /\ ctor = <<85, NoBS, NoBS>>
    /\ conv.bsEnc = 4 /\ conv.bsDec = 5
    /\ text = <<132>>
    /\ Len(DecodedBlocks) = 5

\* ------------------------------------------------------------------------
\* The block structure of the output of BaseConverter.encode
\* ------------------------------------------------------------------------

\* the k-th group of n elements of a sequence
Group(seq, n, k) == SubSeq(seq, (k - 1) * n + 1, k * n)

\* C18: for a converter with the block sizes of guessBS, BaseConverter.encode
\* returns bsDec characters for each block of bsEnc bytes, in the order of
\* the blocks: the output has bsDec * ceil(len / bsEnc) characters and its
\* k-th group of bsDec characters holds the digits of the k-th block.
C18_BlockDigits ==
    (obj = "BaseConverter" /\ pc \in {"encoded", "threw"} /\ ctor[2] = NoBS)
        => /\ encOut.tag = "ok"
           /\ Len(encOut.out) = conv.bsDec * CeilDiv(Len(given), conv.bsEnc)
           /\ \A k \in 1..CeilDiv(Len(given), conv.bsEnc) :
                 BigFromDigits([i \in 1..conv.bsDec |->
                                   Group(encOut.out, conv.bsDec, k)[i] - 48], conv.radix)
                     = BigFromBytes(Group(EncByteArray(conv, given, le), conv.bsEnc, k))

\* new BaseConverter(10), blocks of 11 bytes and 27 digits: the byte [1]
\* encodes to the 25 digits of 2^80
C18_Radix10Shortcut ==
    /\ obj = "BaseConverter" /\ pc = "encoded" /\ ~le
    /\ ctor = <<10, NoBS, NoBS>>
    /\ conv.bsEnc = 11 /\ conv.bsDec = 27
    /\ given = <<1>>
    /\ Len(encOut.out) = 25

\* ------------------------------------------------------------------------
\* The block sizes of guessBS, stated without its loops
\* ------------------------------------------------------------------------

\* d divided by 8 as long as it is larger than 8 and a multiple of 8
Collapsed(d) ==
    LET reducible(j) == d \div (8 ^ j) > 8 /\ (d \div (8 ^ j)) % 8 = 0
        steps == CHOOSE j \in 0..3 : (\A i \in 0..(j - 1) : reducible(i)) /\ ~reducible(j)
    IN  d \div (8 ^ steps)

\* b is the smallest number of bytes with 256^b >= radix^d, and digits the
\* smallest number of digits with radix^digits >= 256^b
IsBlockSizes(radix, d, b, digits) ==
    /\ b \in 0..16 /\ digits \in 0..48
    /\ BigLessEq(BigPow(radix, d), BigPow(256, b))
    /\ (b = 0 \/ BigLess(BigPow(256, b - 1), BigPow(radix, d)))
    /\ BigLessEq(BigPow(256, b), BigPow(radix, digits))
    /\ (digits = 0 \/ BigLess(BigPow(radix, digits - 1), BigPow(256, b)))

\* the first guess of guessBS: the radix below 8, ceil(256 / radix) from 8 on
QuotientGuess(radix) == IF radix < 8 THEN radix ELSE (256 + radix - 1) \div radix

\* the first guess as specified: ceil(log(256) / log(radix))
LogGuess(radix) ==
    CHOOSE d \in 1..8 : /\ BigLessEq(BigPow(256, 1), BigPow(radix, d))
                        /\ (d = 1 \/ BigLess(BigPow(radix, d - 1), BigPow(256, 1)))

IsFloor(k, a, b) == k * b <= a /\ a < (k + 1) * b

IsCeil(k, a, b) == (k - 1) * b < a /\ a <= k * b

C21_PadRoundTrip ==
    (/\ obj = "BaseConverter" /\ pc = "paddedBack"
     /\ ctor[2] = NoBS /\ ctor[3] = NoBS
     /\ padOut.count < conv.bsEnc)
        => padOut.chars = padOut.count

\* radix 9 (12 bytes, 31 digits) and 11 padding bytes: padBytes is
\* floor(341 / 12) = 28 digits and padChars(28) is ceil(336 / 31) = 11
C21_Radix9Eleven ==
    /\ obj = "BaseConverter" /\ pc = "paddedBack"
    /\ ctor = <<9, NoBS, NoBS>>
    /\ conv.bsEnc = 12 /\ conv.bsDec = 31
    /\ padOut = [count |-> 11, bytes |-> 28, chars |-> 11]

\* ------------------------------------------------------------------------
\* C22: decoding without the padding digits
\* ------------------------------------------------------------------------

\* C22: in big-endian order and with the default pad digit 0, for every radix
\* with its guessBS block sizes, dropping the last padBytes(zeroPadding)
\* characters of encode(b) and decoding the shortened string returns exactly
\* the bytes b.
C22_TrimmedRoundTrip ==
    (/\ obj = "BaseConverter" /\ pc \in {"decodedTrimmed", "hungTrimmed"}
     /\ ctor[2] = NoBS /\ ctor[3] = NoBS)
        => (decOut.tag = "ok" /\ decOut.bytes = given)

\* radix 8 (2 bytes, 6 digits) and the byte 1: encode gives "000400" with one
\* padding byte, the shortened string is "000" and decodes to the byte 0
C22_Radix8Lost ==
    /\ obj = "BaseConverter" /\ pc = "decodedTrimmed"
    /\ ctor = <<8, NoBS, NoBS>>
    /\ given = <<1>>
    /\ encOut.out = <<48, 48, 48, 52, 48, 48>> /\ encOut.zeroPadding = 1
    /\ text = <<48, 48, 48>>
    /\ decOut.bytes = <<0>>

\* ------------------------------------------------------------------------
\* C23: the length of the signed encoding
\* ------------------------------------------------------------------------

\* group i (from 1) of v, and whether what remains of v after group i is the
\* sign extension of that group
GroupOf(v, i) == (v \div (128 ^ (i - 1))) % 128
SignExtendedAfter(v, i) ==
    LET rest == v \div (128 ^ i)
    IN  (rest = 0 /\ GroupOf(v, i) < 64) \/ (rest = -1 /\ GroupOf(v, i) >= 64)

\* the smallest k >= 1 with -2^(7k-1) <= v < 2^(7k-1)
SignedLength(v) ==
    CHOOSE k \in 1..4 :
        /\ -(2 ^ (7 * k - 1)) <= v /\ v < 2 ^ (7 * k - 1)
        /\ \A j \in 1..(k - 1) : ~(-(2 ^ (7 * j - 1)) <= v /\ v < 2 ^ (7 * j - 1))

\* C23: for every integer v, LEB128.encode in signed mode stops at the first
\* 7 bit group after which the remaining value is the sign extension of that
\* group; the output has exactly k bytes, k the smallest k >= 1 with
\* -2^(7k-1) <= v < 2^(7k-1), it holds the groups of v in order, and only its
\* last byte has the continuation bit cleared.
C23_SignedMinimal ==
    (pc \in {"encoded", "decoded"} /\ obj = "LEB128" /\ IsInt(num) /\ SignedMode)
        => LET bytes == codecOut.bytes
               k == Len(bytes)
           IN  /\ ContinuationTerminated(bytes)
               /\ k = SignedLength(num.v)
               /\ SignExtendedAfter(num.v, k)
               /\ \A i \in 1..(k - 1) : ~SignExtendedAfter(num.v, i)
               /\ \A i \in 1..k : bytes[i] % 128 = GroupOf(num.v, i)

\* 64 needs two bytes, as bit 6 of its first group is set: [0xC0, 0x00]
C23_Encoded64 ==
    /\ pc = "encoded" /\ obj = "LEB128" /\ SignedMode
    /\ num = Number(64)
    /\ codecOut.bytes = <<192, 0>>

\* ------------------------------------------------------------------------
\* C24, C25, C26: the greedy reduction of BasePhi.encode
\* ------------------------------------------------------------------------

\* the Fibonacci numbers, F(-k) = (-1)^(k+1) * F(k)
RECURSIVE Fib(_)
Fib(k) ==
    IF k < 0 THEN (IF (-k) % 2 = 0 THEN -Fib(-k) ELSE Fib(-k))
    ELSE IF k < 2 THEN k
    ELSE Fib(k - 1) + Fib(k - 2)

\* phi^k = F(k-1) + F(k) * phi
PhiPow(k) == <<Fib(k - 1), Fib(k)>>

\* the magnitude BasePhi.encode reduces
Magnitude == IF num.v < 0 THEN -num.v ELSE num.v

PhiSearched == pc \in {"encoded", "decoded"} /\ obj = "BasePhi" /\ Magnitude >= 2

\* C24: in BasePhi.encode, for every integer n from 2 to MaxPhi, every
\* recorded exponent is the largest k with phi^k <= the remainder at the
\* moment it is recorded, and the exponents are recorded in strictly
\* decreasing order.
C24_GreedyExponents ==
    PhiSearched
        => LET trail == codecOut.trail
           IN  /\ trail # <<>>
               /\ trail[1][2] = BigOf(Magnitude)
               /\ \A i \in 1..Len(trail) :
                      /\ lte(PhiPow(trail[i][1]), trail[i][2])
                      /\ gt(PhiPow(trail[i][1] + 1), trail[i][2])
               /\ \A i \in 1..(Len(trail) - 1) : trail[i][1] > trail[i + 1][1]
               /\ Reverse(codecOut.exponents) \o codecOut.decExponents
                      = [i \in 1..Len(trail) |-> trail[i][1]]

\* 5 = phi^3 + phi^-1 + phi^-4: 3 is recorded against 5, -1 against
\* 5 - phi^3 = 4 - 2 phi and -4 against 5 - 3 phi
C24_Encoded5 ==
    /\ pc = "encoded" /\ obj = "BasePhi"
    /\ num = Number(5)
    /\ codecOut.trail = << <<3, <<5, 0>> >>, <<-1, <<4, -2>> >>, <<-4, <<5, -3>> >> >>

RECURSIVE SumOfPowers(_)
SumOfPowers(trail) ==
    IF trail = <<>> THEN BigOf(0)
    ELSE plus(PhiPow(Head(trail)[1]), SumOfPowers(Tail(trail)))

\* C25: for every integer n from 2 to MaxPhi the reduction in BasePhi.encode
\* ends with the remainder exactly zero after finitely many recorded
\* exponents, whose powers of phi sum to n, and never takes the approximation
\* branch: no power of phi is non-positive and no warning is given.
C25_ExactReduction ==
    PhiSearched
        => /\ codecOut.tag = "ok"
           /\ ~codecOut.warned
           /\ codecOut.rest = BigOf(0)
           /\ SumOfPowers(codecOut.trail) = BigOf(Magnitude)
           /\ \A i \in 1..Len(codecOut.trail) :
                  gt(PhiPow(codecOut.trail[i][1]), BigOf(0))

\* 7 = phi^4 + phi^-4, reduced to zero in two steps
C25_Encoded7 ==
    /\ pc = "encoded" /\ obj = "BasePhi"
    /\ num = BigIntOf(7)
    /\ codecOut.exponents = <<4>> /\ codecOut.decExponents = <<-4>>
    /\ codecOut.rest = BigOf(0)
    /\ ~codecOut.warned

\* the digits of a base phi string, without sign and radix point
RECURSIVE PhiDigits(_)
PhiDigits(str) ==
    IF str = <<>> THEN <<>>
    ELSE IF Head(str) \in {Minus, Dot} THEN PhiDigits(Tail(str))
    ELSE <<Head(str)>> \o PhiDigits(Tail(str))

NoAdjacentOnes(digits) ==
    \A i \in 1..(Len(digits) - 1) : ~(digits[i] = 49 /\ digits[i + 1] = 49)

AllExponents == Reverse(codecOut.exponents) \o codecOut.decExponents

\* C26: the digit string BasePhi.encode returns for an integer n from 2 to
\* MaxPhi has no two adjacent "1" digits, the digits on either side of the
\* radix point counting as adjacent: any two recorded exponents differ by at
\* least 2.
C26_NoAdjacentOnes ==
    PhiSearched
        => /\ NoAdjacentOnes(PhiDigits(codecOut.out))
           /\ \A i, j \in 1..Len(AllExponents) :
                  i < j => AllExponents[i] - AllExponents[j] >= 2

\* 4 = phi^2 + phi^0 + phi^-2 is 101.01
C26_Encoded4 ==
    /\ pc = "encoded" /\ obj = "BasePhi"
    /\ num = Number(4)
    /\ codecOut.out = <<49, 48, 49, Dot, 48, 49>>
    /\ codecOut.exponents = <<0, 2>> /\ codecOut.decExponents = <<-2>>

\* ------------------------------------------------------------------------
\* C27: BasePhi.decode on strings without adjacent ones
\* ------------------------------------------------------------------------

RECURSIVE DropLeadingZeros(_)
DropLeadingZeros(digits) ==
    IF digits # <<>> /\ Head(digits) = 48 THEN DropLeadingZeros(Tail(digits)) ELSE digits

\* a string without the leading zeros of its integer part and the trailing
\* zeros of its fractional part
NormalForm(str) ==
    <<DropLeadingZeros(UpToDot(str)), Reverse(DropLeadingZeros(Reverse(AfterDot(str))))>>

\* C27: BasePhi.decode sums no two strings without adjacent "1" digits to the
\* same value, unless they are the same string once the leading zeros of the
\* integer part and the trailing zeros of the fractional part are removed
\* (strings up to MaxPhiText characters).
C27_DecodeInjective ==
    (obj = "BasePhi" /\ pc = "decodedBoth")
        => /\ codecDec.tag = "ok" /\ codecOut.dec.tag = "ok"
           /\ (codecOut.dec.sum = codecDec.sum
                  => NormalForm(codecOut.text) = NormalForm(text))

\* "100" is phi^2 = 1 + phi and "10.01" is phi + phi^-2 = 2: both round to
\* near values, and the sums differ
C27_TwoStrings ==
    /\ obj = "BasePhi" /\ pc = "decodedBoth"
    /\ text = <<49, 48, 48>>
    /\ codecOut.text = <<49, 48, Dot, 48, 49>>
    /\ codecDec.sum = <<1, 1>>
    /\ codecOut.dec.sum = <<2, 0>>

\* ------------------------------------------------------------------------
\* C28: SmartInput.toBytes on NaN and the infinities
\* ------------------------------------------------------------------------

\* C28: SmartInput.toBytes reports an input-type error, and returns no byte
\* sequence, for every Number input that is NaN, Infinity or -Infinity,
\* whatever the signed, numberMode and littleEndian settings.
C28_NonFiniteRejected ==
    (obj = "SmartInput" /\ pc # "input" /\ num.kind \in {"NaN", "Infinity"})
        => pc = "threw" /\ codecOut = [tag |-> "TypeError"]

\* -Infinity in unsigned big-endian mode: toBytes returns the eight bytes of
\* the double, ff f0 00 00 00 00 00 00, as a "float"
C28_MinusInfinityBytes ==
    /\ obj = "SmartInput" /\ pc = "bytes"
    /\ num = [kind |-> "Infinity", neg |-> TRUE]
    /\ cfg = [signed |-> FALSE, numberMode |-> FALSE, littleEndian |-> FALSE]
    /\ codecOut = [tag |-> "ok", bytes |-> <<255, 240, 0, 0, 0, 0, 0, 0>>,
                   negative |-> FALSE, type |-> "float"]

====
